---------------------------- MODULE Spec2Model ----------------------------
(***************************************************************************)
(* Model of the synthetic medical data generator.                          *)
(*                                                                         *)
(*   src/tools/generate_data.py               generate_correlated_variables*)
(*                                            generate_synthetic_data      *)
(*   src/generate_synthetic_medical_data.py   generate_synthetic_data      *)
(*                                                                         *)
(* Number representation.  A float is an integer count of 1/25 (Unit), so  *)
(* that a standard-normal draw (a multiple of 1/5) times a correlation (a  *)
(* multiple of 1/5) is exact.  NaN is one reserved value, as in IEEE 754.  *)
(* Probabilities are integer hundredths.  An int64 column holds integers.  *)
(*                                                                         *)
(* The process-wide numpy random stream (np.random) is one integer state   *)
(* of a full-period congruential generator; every sampler advances it once *)
(* per value drawn and computes the value from the new state.              *)
(***************************************************************************)
EXTENDS Integers, Sequences, FiniteSets, TLC

VARIABLES rng,   \* state of the process-wide stream np.random
          ret,   \* << >> or <<frame>>: the finished call not yet taken by the caller
          ref,   \* << >> or <<r>>: a finished call remembered for comparison
          th     \* thread -> << >> or <<frame>>: calls running concurrently

vars == <<rng, ret, ref, th>>

---------------------------------------------------------------------------
(* Bounds of the model *)

MaxSamples == 2
MaxSeed == 2

---------------------------------------------------------------------------
(* Floats *)

Unit == 25
NaN == -1000000

IsNaN(x) == x = NaN

FAdd(a, b) == IF IsNaN(a) \/ IsNaN(b) THEN NaN ELSE a + b

\* a float (25ths) times a plain integer parameter
FScale(a, k) == IF IsNaN(a) THEN NaN ELSE a * k

\* a float (25ths) times a factor given in fifths; exact on multiples of 1/5
FMulFifths(q, a) == IF IsNaN(q) \/ IsNaN(a) THEN NaN ELSE (q * a) \div 5

RECURSIVE ISqrtFrom(_, _)
ISqrtFrom(v, c) == IF (c + 1) * (c + 1) > v THEN c ELSE ISqrtFrom(v, c + 1)

\* np.sqrt(1 - correlation**2), correlation and result in fifths:
\* a negative argument gives nan (and a RuntimeWarning), not an exception
SqrtOneMinusSq(q) == IF 25 - q * q < 0 THEN NaN ELSE ISqrtFrom(25 - q * q, 0)

\* ndarray.astype(int) on one value: truncation toward zero
AsTypeInt(x) == IF x >= 0 THEN x \div Unit ELSE -((-x) \div Unit)

---------------------------------------------------------------------------
(* The random stream *)

Modulus == 16

\* np.random.seed(s): the state becomes a function of s alone
SeedMutant(r, s) == r
Seed(r, s) == s % Modulus

NextState(r) == (5 * r + 3) % Modulus

RECURSIVE Advance(_, _)
Advance(r, i) == IF i <= 0 THEN r ELSE Advance(NextState(r), i - 1)

\* one standard-normal value (25ths, a multiple of 1/5) from a stream state
StdNormal(s) ==
    5 * <<-7, 3, 0, -3, 8, -12, 5, 1, -4, 6, -1, 2, -6, 4, -2, 9>>[s + 1]

\* one uniform value in [0,1) (hundredths) from a stream state
Uniform(s) == (37 * s + 11) % 100

\* one standard-gamma value of shape a (25ths), positive for a > 0
StdGamma(s, a) == a * (5 + 10 * (s % 5))

---------------------------------------------------------------------------
(* Library samplers, as called by the program.  Each returns                *)
(* [ok, values, r, n]: whether it returned (FALSE: it raised ValueError),   *)
(* the array, the stream state afterwards and how many values it drew.      *)

Raised(r) == [ok |-> FALSE, values |-> << >>, r |-> r, n |-> 0]

\* scipy.stats.norm.rvs(loc, scale, size): a negative scale is a domain error,
\* a negative size is rejected by numpy, scale 0 returns loc without drawing
NormRvs(r, loc, scale, size) ==
    IF scale < 0 \/ size < 0 THEN Raised(r)
    ELSE IF scale = 0
    THEN [ok |-> TRUE, values |-> [i \in 1..size |-> loc * Unit], r |-> r, n |-> 0]
    ELSE [ok |-> TRUE,
          values |-> [i \in 1..size |->
                        FAdd(FScale(StdNormal(Advance(r, i)), scale), loc * Unit)],
          r |-> Advance(r, size), n |-> size]

\* np.random.normal(0, 1, n)
StandardNormal(r, size) == NormRvs(r, 0, 1, size)

\* scipy.stats.gamma.rvs(a, scale, size): a <= 0 or scale < 0 is a domain error,
\* scale 0 returns zeros without drawing
GammaRvs(r, a, scale, size) ==
    IF a <= 0 \/ scale < 0 \/ size < 0 THEN Raised(r)
    ELSE IF scale = 0
    THEN [ok |-> TRUE, values |-> [i \in 1..size |-> 0], r |-> r, n |-> 0]
    ELSE [ok |-> TRUE,
          values |-> [i \in 1..size |-> FScale(StdGamma(Advance(r, i), a), scale)],
          r |-> Advance(r, size), n |-> size]

\* scipy.stats.binom.rvs(n=1, p, size), p in hundredths: p outside [0,1] is a
\* domain error
BinomRvs(r, p, size) ==
    IF p < 0 \/ p > 100 \/ size < 0 THEN Raised(r)
    ELSE [ok |-> TRUE,
          values |-> [i \in 1..size |-> IF Uniform(Advance(r, i)) < p THEN 1 ELSE 0],
          r |-> Advance(r, size), n |-> size]

---------------------------------------------------------------------------
(* generate_correlated_variables *)

\* x2 = correlation * x1 + np.sqrt(1 - correlation**2) * x2, elementwise
Correlate(correlation, x1, x2) ==
    [i \in 1..Len(x1) |->
        FAdd(FMulFifths(correlation, x1[i]),
             FMulFifths(SqrtOneMinusSq(correlation), x2[i]))]

\* var = x * std + mean, elementwise
Transform(x, std, mean) == [i \in 1..Len(x) |-> FAdd(FScale(x[i], std), mean * Unit)]

\* Returns [ok, var1, var2, r, n].
generate_correlated_variables(r, n, mean1, std1, mean2, std2, correlation) ==
    LET d1 == StandardNormal(r, n)
        d2 == StandardNormal(d1.r, n)
    IN  IF ~d1.ok \/ ~d2.ok
        THEN [ok |-> FALSE, var1 |-> << >>, var2 |-> << >>, r |-> r, n |-> 0]
        ELSE [ok |-> TRUE,
              var1 |-> Transform(d1.values, std1, mean1),
              var2 |-> Transform(Correlate(correlation, d1.values, d2.values),
                                 std2, mean2),
              r |-> d2.r, n |-> d1.n + d2.n]

---------------------------------------------------------------------------
(* Python dict / DataFrame columns: an ordered sequence of columns          *)

Column(name, dtype, values, src) ==
    [name |-> name, dtype |-> dtype, values |-> values, src |-> src]

HasKey(d, name) == \E i \in 1..Len(d) : d[i].name = name

KeyIndex(d, name) == CHOOSE i \in 1..Len(d) : d[i].name = name

\* d[name] = column: an existing key keeps its position and loses its value
DictSet(d, col) ==
    IF HasKey(d, col.name) THEN [d EXCEPT ![KeyIndex(d, col.name)] = col]
    ELSE Append(d, col)

RECURSIVE DictUpdate(_, _)
DictUpdate(d, cols) ==
    IF cols = << >> THEN d ELSE DictUpdate(DictSet(d, Head(cols)), Tail(cols))

Names(d) == [i \in 1..Len(d) |-> d[i].name]

\* pd.DataFrame(dict of arrays) requires arrays of one length
SameLength(d) == \A i, j \in 1..Len(d) : Len(d[i].values) = Len(d[j].values)

\* zip(a, b): pairs up to the shorter
ZipAllNames(a, b) == [i \in 1..Len(a) |-> <<a[i], IF i <= Len(b) THEN b[i] ELSE 0>>]
Zip(a, b) ==
    [i \in 1..(IF Len(a) < Len(b) THEN Len(a) ELSE Len(b)) |-> <<a[i], b[i]>>]

DefaultComorbidities == <<"diabetes", "hypertension", "cancer">>
DefaultPrevalences == <<20, 30, 5>>
EventProbability == 30

\* the comorbidity arguments after defaulting; an Option is << >> (None) or <<x>>
OrDefault(opt, default) == IF opt = << >> THEN default ELSE opt[1]

---------------------------------------------------------------------------
(* One call of generate_synthetic_data: its frame                          *)
(*   fn      "tools" (src/tools/generate_data.py) or "legacy"              *)
(*           (src/generate_synthetic_medical_data.py)                      *)
(*   cfg     the arguments                                                 *)
(*   pc      the statement to run next                                     *)
(*   data_dict, comorbidity_data, pairs, k   the locals                    *)
(*   draws   random values this call has consumed                          *)
(*   log     the samplers this call has invoked, in order                  *)
(*   status  "running", "returned" or "raised"; table: the DataFrame       *)

NewFrame(fn, cfg) ==
    [fn |-> fn, cfg |-> cfg, pc |-> "seed", data_dict |-> << >>,
     comorbidity_data |-> << >>, pairs |-> << >>, k |-> 1, draws |-> 0,
     log |-> << >>, status |-> "running", error |-> "", table |-> << >>]

\* an exception leaves the function: nothing is returned
Raise(f, r, sampler) ==
    [f |-> [f EXCEPT !.status = "raised", !.error = "ValueError", !.pc = "done",
                     !.log = Append(@, sampler)],
     r |-> r]

\* np.random.seed(random_seed)
StepSeed(f, r) ==
    [f |-> [f EXCEPT !.pc = "demographics"], r |-> Seed(r, f.cfg.random_seed)]

\* the size argument of the survival_time sampler
SurvivalSizeMutant(cfg) == 1
SurvivalSize(cfg) == cfg.num_samples

\* age and weight drawn independently; age narrowed by astype(int)
StepIndependent(f, r) ==
    LET c == f.cfg
        a == NormRvs(r, c.age_params[1], c.age_params[2], c.num_samples)
        w == NormRvs(a.r, c.weight_params[1], c.weight_params[2], c.num_samples)
        age == Column("age", "int64",
                      [i \in 1..Len(a.values) |-> AsTypeInt(a.values[i])], "norm.rvs")
        weight == Column("weight", "float64", w.values, "norm.rvs")
    IN  IF ~a.ok THEN Raise(f, r, "norm.rvs:age")
        ELSE IF ~w.ok
        THEN Raise([f EXCEPT !.draws = @ + a.n, !.log = Append(@, "norm.rvs:age"),
                             !.data_dict = DictSet(@, age)],
                   a.r, "norm.rvs:weight")
        ELSE [f |-> [f EXCEPT !.pc = "length_of_stay",
                              !.draws = @ + a.n + w.n,
                              !.log = @ \o <<"norm.rvs:age", "norm.rvs:weight">>,
                              !.data_dict = DictSet(DictSet(@, age), weight)],
              r |-> w.r]

\* the two outputs of generate_correlated_variables bound to the configured names
StepCorrelated(f, r) ==
    LET cv == f.cfg.correlated_vars[1]
        g == generate_correlated_variables(r, f.cfg.num_samples,
                 cv.var1.mean, cv.var1.std, cv.var2.mean, cv.var2.std,
                 cv.correlation)
        v1 == Column(cv.var1.name, "float64", g.var1, "correlated")
        v2 == Column(cv.var2.name, "float64", g.var2, "correlated")
    IN  IF ~g.ok THEN Raise(f, r, "generate_correlated_variables")
        ELSE [f |-> [f EXCEPT !.pc = "length_of_stay",
                              !.draws = @ + g.n,
                              !.log = Append(@, "generate_correlated_variables"),
                              !.data_dict = DictSet(DictSet(@, v1), v2)],
              r |-> g.r]

\* if correlated_vars: ... else: ...  (the legacy function has no such argument)
StepDemographics(f, r) ==
    IF f.fn = "tools" /\ f.cfg.correlated_vars # << >>
    THEN StepCorrelated(f, r)
    ELSE StepIndependent(f, r)

\* length_of_stay, then the defaulting of the two comorbidity arguments
StepLengthOfStay(f, r) ==
    LET c == f.cfg
        g == GammaRvs(r, c.length_of_stay_params[1], c.length_of_stay_params[2],
                      c.num_samples)
        pairs == Zip(OrDefault(c.comorbidity_list, DefaultComorbidities),
                     OrDefault(c.comorbidity_prevalences, DefaultPrevalences))
    IN  IF ~g.ok THEN Raise(f, r, "gamma.rvs:length_of_stay")
        ELSE [f |-> [f EXCEPT !.pc = IF pairs = << >> THEN "survival_time"
                                     ELSE "comorbidity",
                              !.draws = @ + g.n,
                              !.log = Append(@, "gamma.rvs:length_of_stay"),
                              !.pairs = pairs, !.k = 1,
                              !.data_dict = DictSet(@,
                                  Column("length_of_stay", "float64", g.values,
                                         "gamma.rvs"))],
              r |-> g.r]

\* one iteration of: for comorbidity, prevalence in zip(...)
StepComorbidity(f, r) ==
    LET name == f.pairs[f.k][1]
        b == BinomRvs(r, f.pairs[f.k][2], f.cfg.num_samples)
        col == Column(name, "int64", b.values, "binom.rvs")
        g == [f EXCEPT !.pc = IF f.k = Len(f.pairs) THEN "survival_time"
                              ELSE "comorbidity",
                       !.k = @ + 1,
                       !.draws = @ + b.n,
                       !.log = Append(@, "binom.rvs:comorbidity")]
    IN  IF ~b.ok THEN Raise(f, r, "binom.rvs:comorbidity")
        ELSE [f |-> IF f.fn = "tools"
                    THEN [g EXCEPT !.data_dict = DictSet(@, col)]
                    ELSE [g EXCEPT !.comorbidity_data = DictSet(@, col)],
              r |-> b.r]

StepSurvivalTime(f, r) ==
    LET c == f.cfg
        g == GammaRvs(r, c.survival_shape, c.survival_scale, SurvivalSize(c))
    IN  IF ~g.ok THEN Raise(f, r, "gamma.rvs:survival_time")
        ELSE [f |-> [f EXCEPT !.pc = "event_occurred",
                              !.draws = @ + g.n,
                              !.log = Append(@, "gamma.rvs:survival_time"),
                              !.data_dict = DictSet(@,
                                  Column("survival_time", "float64", g.values,
                                         "gamma.rvs"))],
              r |-> g.r]

StepEventOccurred(f, r) ==
    LET b == BinomRvs(r, EventProbability, f.cfg.num_samples)
    IN  IF ~b.ok THEN Raise(f, r, "binom.rvs:event_occurred")
        ELSE [f |-> [f EXCEPT !.pc = "return",
                              !.draws = @ + b.n,
                              !.log = Append(@, "binom.rvs:event_occurred"),
                              !.data_dict = DictSet(@,
                                  Column("event_occurred", "int64", b.values,
                                         "binom.rvs"))],
              r |-> b.r]

\* tools:  return pd.DataFrame(data_dict)
\* legacy: the five locals as a DataFrame, then data[c_name] = c_values for
\*         every item of comorbidity_data
Assemble(f) ==
    IF f.fn = "tools" THEN f.data_dict
    ELSE LET d == f.data_dict
             base == <<d[KeyIndex(d, "age")], d[KeyIndex(d, "weight")],
                       d[KeyIndex(d, "length_of_stay")],
                       d[KeyIndex(d, "survival_time")],
                       d[KeyIndex(d, "event_occurred")]>>
         IN  DictUpdate(base, f.comorbidity_data)

StepReturn(f, r) ==
    LET t == Assemble(f)
    IN  IF ~SameLength(t) THEN Raise(f, r, "DataFrame")
        ELSE [f |-> [f EXCEPT !.pc = "done", !.status = "returned", !.table = t],
              r |-> r]

\* the next statement of a running call, on stream state r
Step(f, r) ==
    CASE f.pc = "seed" -> StepSeed(f, r)
      [] f.pc = "demographics" -> StepDemographics(f, r)
      [] f.pc = "length_of_stay" -> StepLengthOfStay(f, r)
      [] f.pc = "comorbidity" -> StepComorbidity(f, r)
      [] f.pc = "survival_time" -> StepSurvivalTime(f, r)
      [] f.pc = "event_occurred" -> StepEventOccurred(f, r)
      [] f.pc = "return" -> StepReturn(f, r)

\* a call run from its current statement to its end without interruption
RECURSIVE Run(_, _)
Run(f, r) ==
    IF f.status # "running" THEN [f |-> f, r |-> r]
    ELSE LET s == Step(f, r) IN Run(s.f, s.r)

---------------------------------------------------------------------------
(* The arguments the model calls the program with *)

Pair(name1, mean1, std1, name2, mean2, std2, correlation) ==
    [var1 |-> [name |-> name1, mean |-> mean1, std |-> std1],
     var2 |-> [name |-> name2, mean |-> mean2, std |-> std2],
     correlation |-> correlation]

\* correlations in fifths: -1, 3/5, 1 and (out of range) 2
CorrelatedOptions ==
    {<< >>}
    \cup {<<Pair("age", 60, 10, "weight", 70, 15, q)>> : q \in {-5, 3, 5, 10}}
    \cup {<<Pair("bmi", 25, 4, "age", 60, 1, 3)>>}

ComorbidityListOptions ==
    {<< >>, << <<"diabetes">> >>, << <<"age">> >>, << <<"diabetes", "cancer">> >>,
     << <<"cancer", "cancer">> >>, << <<"bmi", "survival_time">> >>}

PrevalenceOptions ==
    {<< >>, << <<50>> >>, << <<20, 100>> >>, << <<30, 120>> >>}

Config(n, age, los, names, prevs, shape, scale, cv, seed) ==
    [num_samples |-> n, age_params |-> age, weight_params |-> <<70, 15>>,
     length_of_stay_params |-> los, comorbidity_list |-> names,
     comorbidity_prevalences |-> prevs, survival_shape |-> shape,
     survival_scale |-> scale, correlated_vars |-> cv, random_seed |-> seed]

Seeds == 1..MaxSeed
SampleCounts == -1..MaxSamples

\* the calls of src/generate_synthetic_medical_data.py: no correlated_vars
LegacyConfigs ==
    {Config(n, age, los, names, prevs, sv[1], sv[2], << >>, seed) :
        n \in SampleCounts, age \in {<<60, 10>>, <<0, 1>>},
        los \in {<<2, 2>>, <<0, 2>>}, names \in ComorbidityListOptions,
        prevs \in PrevalenceOptions, sv \in {<<2, 5>>, <<2, 0>>, <<-1, 5>>},
        seed \in Seeds}

\* the calls of src/tools/generate_data.py
Configs ==
    {[c EXCEPT !.correlated_vars = cv] : c \in LegacyConfigs, cv \in CorrelatedOptions}

\* the calls compared with one another for determinism
DetConfigs ==
    {c \in Configs :
        /\ c.age_params = <<60, 10>> /\ c.length_of_stay_params = <<2, 2>>
        /\ c.survival_shape = 2 /\ c.survival_scale = 5
        /\ c.comorbidity_prevalences = << >>
        /\ c.comorbidity_list \in {<< >>, << <<"age">> >>}
        /\ c.correlated_vars \in {<< >>, <<Pair("bmi", 25, 4, "age", 60, 1, 3)>>}}

\* the calls run concurrently
ConcConfigs ==
    {c \in DetConfigs : c.num_samples = 1 /\ c.comorbidity_list = << >>}

Threads == {"t1", "t2"}

---------------------------------------------------------------------------
(* State machine *)

\* numpy seeds the process-wide stream from the operating system at import
Init ==
    /\ rng \in 0..(Modulus - 1)
    /\ ret = << >>
    /\ ref = << >>
    /\ th = [t \in Threads |-> << >>]

\* has another call run since the remembered one?
Between(f) ==
    IF ref = << >> THEN ref
    ELSE <<[ref[1] EXCEPT !.between = @ \/ f.cfg # ref[1].call.cfg
                                        \/ f.fn # ref[1].call.fn]>>

\* a call that ran to its end: the stream is left where the call left it
Finish(s) ==
    /\ rng' = s.r
    /\ ret' = <<s.f>>
    /\ ref' = Between(s.f)

\* one whole call of generate_synthetic_data(...) of src/tools/generate_data.py,
\* start to return or raise
Generate ==
    /\ ret = << >>
    /\ \E cfg \in Configs : Finish(Run(NewFrame("tools", cfg), rng))
    /\ UNCHANGED th

\* one whole call of generate_synthetic_data(...) of
\* src/generate_synthetic_medical_data.py
GenerateLegacy ==
    /\ ret = << >>
    /\ \E cfg \in LegacyConfigs : Finish(Run(NewFrame("legacy", cfg), rng))
    /\ UNCHANGED th

\* generate_correlated_variables(...) called directly: no seeding
CallCorrelated ==
    /\ ret = << >>
    /\ \E n \in SampleCounts, cv \in CorrelatedOptions \ {<< >>} :
         LET p == cv[1]
             g == generate_correlated_variables(rng, n, p.var1.mean, p.var1.std,
                      p.var2.mean, p.var2.std, p.correlation)
             f == [NewFrame("generate_correlated_variables",
                            Config(n, <<60, 10>>, <<2, 2>>, << >>, << >>, 2, 5, cv, 1))
                     EXCEPT !.pc = "done", !.draws = g.n,
                            !.log = <<"generate_correlated_variables">>]
         IN  /\ rng' = g.r
             /\ ret' = IF g.ok
                       THEN <<[f EXCEPT !.status = "returned",
                                 !.table = <<Column("var1", "float64", g.var1, "correlated"),
                                             Column("var2", "float64", g.var2, "correlated")>>]>>
                       ELSE <<[f EXCEPT !.status = "raised", !.error = "ValueError"]>>
    /\ UNCHANGED <<ref, th>>

\* the caller takes the result (or handles the exception)
Take ==
    /\ ret # << >>
    /\ ret' = << >>
    /\ UNCHANGED <<rng, ref, th>>

Next == Generate \/ GenerateLegacy \/ CallCorrelated \/ Take

Spec == Init /\ [][Next]_vars

(* Repeated calls: one finished call is remembered and later calls are      *)
(* compared with it.                                                        *)

GenerateDet ==
    /\ ret = << >>
    /\ \E cfg \in DetConfigs : Finish(Run(NewFrame("tools", cfg), rng))
    /\ UNCHANGED th

GenerateLegacyDet ==
    /\ ret = << >>
    /\ \E cfg \in DetConfigs \cap LegacyConfigs :
         Finish(Run(NewFrame("legacy", cfg), rng))
    /\ UNCHANGED th

Remember ==
    /\ ret # << >>
    /\ ref = << >>
    /\ ref' = <<[call |-> ret[1], between |-> FALSE]>>
    /\ ret' = << >>
    /\ UNCHANGED <<rng, th>>

NextDet == GenerateDet \/ GenerateLegacyDet \/ Remember \/ Take

SpecDet == Init /\ [][NextDet]_vars

(* Two threads of one process, each making one call; a thread runs one      *)
(* statement of its call at a time on the process-wide stream.              *)

Start(t) ==
    /\ th[t] = << >>
    /\ \E cfg \in ConcConfigs : th' = [th EXCEPT ![t] = <<NewFrame("tools", cfg)>>]
    /\ UNCHANGED <<rng, ret, ref>>

Statement(t) ==
    /\ th[t] # << >>
    /\ th[t][1].status = "running"
    /\ LET s == Step(th[t][1], rng)
       IN  /\ rng' = s.r
           /\ th' = [th EXCEPT ![t] = <<s.f>>]
    /\ UNCHANGED <<ret, ref>>

NextConc == \E t \in Threads : Start(t) \/ Statement(t)

SpecConc == Init /\ [][NextConc]_vars

---------------------------------------------------------------------------
(* Vocabulary of the claims *)

IsGenerate(f) == f.fn \in {"tools", "legacy"}

EffectiveNames(cfg) == OrDefault(cfg.comorbidity_list, DefaultComorbidities)
EffectivePrevalences(cfg) == OrDefault(cfg.comorbidity_prevalences, DefaultPrevalences)

MinLen(a, b) == IF Len(a) < Len(b) THEN Len(a) ELSE Len(b)

HasPair(f) == f.fn # "legacy" /\ f.cfg.correlated_vars # << >>

PairNames(f) ==
    IF HasPair(f)
    THEN <<f.cfg.correlated_vars[1].var1.name, f.cfg.correlated_vars[1].var2.name>>
    ELSE <<"age", "weight">>

ReservedNames == {"age", "weight", "length_of_stay", "survival_time", "event_occurred"}

Range(q) == {q[i] : i \in 1..Len(q)}

\* a parameter the specification calls invalid
InvalidParameter(cfg) ==
    \/ cfg.num_samples < 0
    \/ cfg.length_of_stay_params[1] <= 0 \/ cfg.length_of_stay_params[2] <= 0
    \/ cfg.survival_shape <= 0 \/ cfg.survival_scale <= 0
    \/ \E p \in Range(EffectivePrevalences(cfg)) : p < 0 \/ p > 100

CorrelationOutOfRange(f) ==
    HasPair(f) /\ (f.cfg.correlated_vars[1].correlation < -5
                   \/ f.cfg.correlated_vars[1].correlation > 5)

ValidConfig(f) ==
    /\ ~InvalidParameter(f.cfg)
    /\ ~CorrelationOutOfRange(f)
    /\ f.cfg.age_params[2] >= 0 /\ f.cfg.weight_params[2] >= 0

\* a comorbidity name equal to a reserved name, a pair name or another comorbidity
Collides(f) ==
    LET names == EffectiveNames(f.cfg)
    IN  \/ \E i \in 1..Len(names) : names[i] \in ReservedNames \cup Range(PairNames(f))
        \/ \E i, j \in 1..Len(names) : i # j /\ names[i] = names[j]

\* the field order of section 4.3 of the specification
SpecifiedOrder(f) ==
    LET names == EffectiveNames(f.cfg)
        m == MinLen(names, EffectivePrevalences(f.cfg))
    IN  PairNames(f) \o <<"length_of_stay", "survival_time", "event_occurred">>
        \o [i \in 1..m |-> names[i]]

ColumnsNamed(t, name) == {i \in 1..Len(t) : t[i].name = name}

---------------------------------------------------------------------------
(* Claims *)

\* C1: a configuration with an invalid parameter (non-positive Gamma shape or
\* scale, a prevalence outside [0,1], a negative sample count) makes
\* generate_synthetic_data fail before the first random draw.
C1_FailsBeforeAnyDraw ==
    \A i \in 1..Len(ret) :
        IsGenerate(ret[i]) /\ InvalidParameter(ret[i].cfg)
            => ret[i].status = "raised" /\ ret[i].draws = 0

\* C2: the returned table's columns are, in order, the pair fields (or age,
\* weight), length_of_stay, survival_time, event_occurred, then the comorbidity
\* fields in configured order (stated for configurations without a name
\* collision, where every field is its own column).
C2_ColumnOrder ==
    \A i \in 1..Len(ret) :
        IsGenerate(ret[i]) /\ ret[i].status = "returned" /\ ~Collides(ret[i])
            => Names(ret[i].table) = SpecifiedOrder(ret[i])

\* C3: a configuration with a colliding comorbidity name is rejected before any
\* sampling, so no table is returned.
C3_CollisionRejected ==
    \A i \in 1..Len(ret) :
        IsGenerate(ret[i]) /\ Collides(ret[i])
            => ret[i].status = "raised" /\ ret[i].draws = 0

\* C4: a call with the same function, configuration and seed as a remembered
\* earlier call ends the same way and returns the same table, whatever calls
\* ran before the first or between the two.
C4_Deterministic ==
    \A i \in 1..Len(ret), j \in 1..Len(ref) :
        ret[i].fn = ref[j].call.fn /\ ret[i].cfg = ref[j].call.cfg
            => /\ ret[i].status = ref[j].call.status
               /\ ret[i].table = ref[j].call.table

C4_Witness ==
    /\ ret # << >> /\ ref # << >>
    /\ ret[1].fn = ref[1].call.fn /\ ret[1].cfg = ref[1].call.cfg
    /\ ref[1].between
    /\ ret[1].status = "returned" /\ ret[1].cfg.num_samples >= 2
    /\ ret[1].draws > 0

\* C5: a call whose statements interleave with another call's returns exactly
\* what it returns when run alone with its configuration and seed.
C5_IsolatedFromOtherCalls ==
    \A t \in Threads : \A i \in 1..Len(th[t]) :
        th[t][i].status # "running"
            => LET alone == Run(NewFrame(th[t][i].fn, th[t][i].cfg), 0).f
               IN  th[t][i].status = alone.status /\ th[t][i].table = alone.table

\* C6: for a valid configuration the call returns a table whose every column
\* has num_samples values (num_samples = 0: an empty table, no error).
C6_RowCount ==
    \A i \in 1..Len(ret) :
        IsGenerate(ret[i]) /\ ValidConfig(ret[i])
            => /\ ret[i].status = "returned"
               /\ ret[i].table # << >>
               /\ \A c \in 1..Len(ret[i].table) :
                    Len(ret[i].table[c].values) = ret[i].cfg.num_samples

C6_Witness ==
    /\ ret # << >> /\ IsGenerate(ret[1]) /\ ValidConfig(ret[1])
    /\ ret[1].cfg.num_samples = 0
    /\ ret[1].status = "returned" /\ Len(ret[1].table) >= 6

\* the second output is an exact linear function of the first:
\* (v2 - mean2) * std1 = sign * std2 * (v1 - mean1)
Linear(f, v1, v2, sign) ==
    LET p == f.cfg.correlated_vars[1]
    IN  /\ Len(v1) = Len(v2)
        /\ \A i \in 1..Len(v1) :
             /\ ~IsNaN(v1[i]) /\ ~IsNaN(v2[i])
             /\ (v2[i] - p.var2.mean * Unit) * p.var1.std
                  = sign * p.var2.std * (v1[i] - p.var1.mean * Unit)

PairOutputs(f) ==
    IF f.fn = "generate_correlated_variables" THEN <<"var1", "var2">> ELSE PairNames(f)

\* C7: a correlation outside [-1,1] is rejected and nothing is returned; with
\* correlation exactly 1 or -1 (and an otherwise valid call) the call returns
\* and the second sequence is the exact linear image of the first.
C7_CorrelationChecked ==
    \A i \in 1..Len(ret) :
        HasPair(ret[i]) =>
            LET f == ret[i]
                q == f.cfg.correlated_vars[1].correlation
                t == f.table
                o == PairOutputs(f)
            IN  /\ CorrelationOutOfRange(f) => f.status = "raised"
                /\ (q \in {-5, 5} /\ ValidConfig(f) /\ ~Collides(f)) =>
                      /\ f.status = "returned"
                      /\ Linear(f, t[KeyIndex(t, o[1])].values,
                                t[KeyIndex(t, o[2])].values, q \div 5)

\* C8: with a correlated pair configured the independent age and weight
\* samplers are not invoked and no independently sampled column is in the
\* table; without one the table's age and weight are the independently sampled
\* ones.
C8_PairReplacesAgeWeight ==
    \A i \in 1..Len(ret) :
        IsGenerate(ret[i]) /\ ret[i].status = "returned" =>
            LET f == ret[i]
                t == f.table
            IN  IF HasPair(f)
                THEN /\ \A k \in 1..Len(f.log) :
                            f.log[k] \notin {"norm.rvs:age", "norm.rvs:weight"}
                     /\ \A c \in 1..Len(t) : t[c].src # "norm.rvs"
                ELSE \A name \in {"age", "weight"} :
                        \E c \in ColumnsNamed(t, name) : t[c].src = "norm.rvs"

\* C9: a column named age holds integers in every returned table.
C9_AgeIsInteger ==
    \A i \in 1..Len(ret) :
        IsGenerate(ret[i]) /\ ret[i].status = "returned" =>
            \A c \in ColumnsNamed(ret[i].table, "age") :
                ret[i].table[c].dtype = "int64"

\* C10: names and prevalences are paired by position up to the shorter list;
\* a length mismatch raises nothing, the comorbidity sampler runs once for each
\* of the first min(len(names), len(prevalences)) names, and the table's
\* columns are the non-comorbidity fields plus exactly those names.
C10_ShorterListWins ==
    \A i \in 1..Len(ret) :
        IsGenerate(ret[i]) =>
            LET f == ret[i]
                names == EffectiveNames(f.cfg)
                prevs == EffectivePrevalences(f.cfg)
                m == MinLen(names, prevs)
                t == f.table
                base == Range(PairNames(f))
                          \cup {"length_of_stay", "survival_time", "event_occurred"}
            IN  /\ ValidConfig(f) => f.status = "returned"
                /\ f.status = "returned" =>
                     /\ Cardinality({k \in 1..Len(f.log) :
                                        f.log[k] = "binom.rvs:comorbidity"}) = m
                     /\ Range(Names(t)) = base \cup {names[k] : k \in 1..m}
                     /\ \A k \in 1..m :
                          (names[k] \notin base
                             /\ \A k2 \in 1..m : k2 # k => names[k2] # names[k]) =>
                            LET col == t[KeyIndex(t, names[k])]
                            IN  /\ col.src = "binom.rvs"
                                /\ prevs[k] = 100 =>
                                     \A v \in Range(col.values) : v = 1
                                /\ prevs[k] = 0 =>
                                     \A v \in Range(col.values) : v = 0

C10_Witness ==
    /\ ret # << >> /\ IsGenerate(ret[1]) /\ ret[1].status = "returned"
    /\ Len(EffectiveNames(ret[1].cfg)) = 2
    /\ Len(EffectivePrevalences(ret[1].cfg)) = 1
    /\ ret[1].cfg.num_samples >= 1
    /\ ~HasKey(ret[1].table, EffectiveNames(ret[1].cfg)[2])
    /\ HasKey(ret[1].table, EffectiveNames(ret[1].cfg)[1])

=============================================================================
